---- MODULE Spec2Model ----
(***************************************************************************)
(* A model of soul::AudioMIDIWrapper                                       *)
(* (source/modules/soul_core/utilities/soul_AudioMIDIWrapper.h): the       *)
(* pipeline builder (reset, buildRenderingPipeline) and the block          *)
(* splitting render loop (render, RenderContext::iterateInBlocks).         *)
(*                                                                         *)
(* The Performer is the external engine.  Its endpoint lists are fixed in  *)
(* the initial state; every call the wrapper makes on it is appended to    *)
(* the observer variable `calls`, and the events it produces in an advance *)
(* are chosen nondeterministically.  Audio sample data is not modelled:    *)
(* channel views are reduced to their frame range.                         *)
(***************************************************************************)
EXTENDS Integers, Sequences, FiniteSets, TLC

VARIABLES
    inputEndpoints,             \* perf.getInputEndpoints()
    outputEndpoints,            \* perf.getOutputEndpoints()
    preparedFrames,             \* frame count of the last performer.prepare
    outputEvents,               \* events the engine produced in the last advance
    totalFramesRendered,        \* AudioMIDIWrapper members
    preRenderOperations,
    postRenderOperations,
    numInputChannelsExpected,
    numOutputChannelsExpected,
    maxBlockSize,
    pc,                         \* position of the single caller thread
    build,                      \* arguments and cursor of buildRenderingPipeline
    host,                       \* arguments of render
    outer,                      \* the RenderContext made by render (*this)
    context,                    \* the copy iterateInBlocks hands to the callback
    framesRemaining,
    framesToDo,
    midiOut,                    \* the host's outbound event buffer
    opIndex,                    \* cursor of the operation loops in the callback
    numMIDIOutMessages,         \* render's out-parameter
    detector,                   \* per parameter detector: results of its probes
    calls,                      \* observer: Performer and callback calls of this render
    subBlocks,                  \* observer: sub-blocks handed to the callback
    renders,                    \* observer: render calls begun since the last build
    produced,                   \* observer: events the engine produced in this render
    lastBuild,                  \* observer: arguments and result of the last build
    prevBuild                   \* observer: the same of the build before it

engineVars  == <<inputEndpoints, outputEndpoints>>
wrapperVars == <<totalFramesRendered, preRenderOperations, postRenderOperations,
                 numInputChannelsExpected, numOutputChannelsExpected, maxBlockSize>>
loopVars    == <<host, outer, context, framesRemaining, framesToDo>>
buildObs    == <<lastBuild, prevBuild>>
vars == <<inputEndpoints, outputEndpoints, preparedFrames, outputEvents,
          totalFramesRendered, preRenderOperations, postRenderOperations,
          numInputChannelsExpected, numOutputChannelsExpected, maxBlockSize,
          pc, build, host, outer, context, framesRemaining, framesToDo, midiOut,
          opIndex, numMIDIOutMessages, detector, calls, subBlocks, renders,
          produced, lastBuild, prevBuild>>

----------------------------------------------------------------------------
(* Bounds of the model. *)

MaxEvents == 2          \* inbound events per render call
MaxCapacity == 2        \* outbound buffer capacity
MaxProduce == 2         \* events the engine produces per render call
MaxNewValues == 2       \* probes of one detector that return a value
MaxRenders == 2         \* render calls between two builds
MaxSplits == 3          \* host block size, in multiples of maxBlockSize
MaxEndpoints == 2       \* endpoints per direction in the build study

(* The hard ceiling of buildRenderingPipeline. *)
HardCeiling == 512

Min(a, b) == IF a < b THEN a ELSE b

RECURSIVE SeqSum(_)
SeqSum(s) == IF s = <<>> THEN 0 ELSE Head(s) + SeqSum(Tail(s))

----------------------------------------------------------------------------
(* Endpoints, as far as the builder inspects them. *)

Endpoint(type, param, midi, chans, float) ==
    [type |-> type, param |-> param, midi |-> midi, chans |-> chans, float |-> float]

ParamEvent  == Endpoint("event",  TRUE,  FALSE, 0, TRUE)
ParamStream == Endpoint("stream", TRUE,  FALSE, 1, TRUE)
ParamValue  == Endpoint("value",  TRUE,  FALSE, 0, TRUE)
MidiEvent   == Endpoint("event",  FALSE, TRUE,  0, FALSE)
AudioMono   == Endpoint("stream", FALSE, FALSE, 1, TRUE)
AudioStereo == Endpoint("stream", FALSE, FALSE, 2, TRUE)
AudioInt    == Endpoint("stream", FALSE, FALSE, 1, FALSE)
PlainEvent  == Endpoint("event",  FALSE, FALSE, 0, FALSE)

isParameterInput(e)    == e.param
isEvent(e)             == e.type = "event"
isStream(e)            == e.type = "stream"
isValue(e)             == e.type = "value"
isMIDIEventEndpoint(e) == e.midi
getNumAudioChannels(e) == e.chans
isFloatFrameType(e)    == e.float

(* A compiled operation: the closure's kind and its captures. *)
Operation(kind, handle, startChannel, numChans, rampFrames) ==
    [kind |-> kind, handle |-> handle, startChannel |-> startChannel,
     numChans |-> numChans, rampFrames |-> rampFrames]

(* What compiling one endpoint does: the operations appended, the channels
   added to the expected count, and whether an assertion halts the build. *)
Compiled(ops, chans, halt) == [ops |-> ops, chans |-> chans, halt |-> halt]

(* Mutant of rampPrecondition: the provider is not asserted. *)
rampPreconditionUnchecked(rampFn) == TRUE

(* SOUL_ASSERT (getRampLengthForSparseStreamFn != nullptr) *)
rampPrecondition(rampFn) == rampFn.present

compileInputEndpoint(e, i, b, startChannel) ==
    IF isParameterInput(e)
    THEN IF b.newValueFn.present /\ i \in b.newValueFn.provides
         THEN IF isEvent(e)
              THEN Compiled(<<Operation("paramEvent", i, 0, 0, 0)>>, 0, FALSE)
              ELSE IF isStream(e)
              THEN IF rampPrecondition(b.rampFn)
                   THEN Compiled(<<Operation("paramStream", i, 0, 0, b.rampFn.frames)>>, 0, FALSE)
                   ELSE Compiled(<<>>, 0, TRUE)
              ELSE IF isValue(e)
              THEN Compiled(<<Operation("paramValue", i, 0, 0, 0)>>, 0, FALSE)
              ELSE Compiled(<<>>, 0, FALSE)
         ELSE Compiled(<<>>, 0, FALSE)
    ELSE IF isMIDIEventEndpoint(e)
    THEN Compiled(<<Operation("midiIn", i, 0, 0, 0)>>, 0, FALSE)
    ELSE IF getNumAudioChannels(e) # 0
    THEN IF isFloatFrameType(e)
         THEN IF e.chans = 1
              THEN Compiled(<<Operation("audioIn", i, startChannel, 1, 0)>>,
                            getNumAudioChannels(e), FALSE)
              ELSE Compiled(<<Operation("audioInInterleaved", i, startChannel, e.chans, 0)>>,
                            getNumAudioChannels(e), FALSE)
         ELSE Compiled(<<>>, 0, TRUE)
    ELSE Compiled(<<>>, 0, FALSE)

compileOutputEndpoint(e, j, b, startChannel) ==
    IF isMIDIEventEndpoint(e)
    THEN Compiled(<<Operation("midiOut", j, 0, 0, 0)>>, 0, FALSE)
    ELSE IF getNumAudioChannels(e) # 0
    THEN IF isFloatFrameType(e)
         THEN Compiled(<<Operation("audioOut", j, startChannel, getNumAudioChannels(e), 0)>>,
                       getNumAudioChannels(e), FALSE)
         ELSE Compiled(<<>>, getNumAudioChannels(e), TRUE)
    ELSE IF b.unusedFn.present /\ isEvent(e)
    THEN Compiled(<<Operation("unusedEvent", j, 0, 0, 0)>>, 0, FALSE)
    ELSE Compiled(<<>>, 0, FALSE)

(* Mutant of advanceChannels: endpoints are counted, not their channels. *)
advanceChannelsByOne(expected, numChans) == IF numChans = 0 THEN expected ELSE expected + 1

(* numInputChannelsExpected += numSourceChans, numOutputChannelsExpected += numChans *)
advanceChannels(expected, numChans) == expected + numChans

(* Mutant of effectiveBlockSize: the hard ceiling is not applied. *)
effectiveBlockSizeNoCeiling(processorMaxBlockSize) == processorMaxBlockSize

effectiveBlockSize(processorMaxBlockSize) == Min(HardCeiling, processorMaxBlockSize)

----------------------------------------------------------------------------
(* Values of the call frames when no call is active. *)

NoBuild == [processorMaxBlockSize |-> 0,
            newValueFn |-> [present |-> FALSE, provides |-> {}],
            rampFn |-> [present |-> FALSE, frames |-> 0],
            unusedFn |-> [present |-> FALSE],
            index |-> 0]
NoHost == [numFrames |-> 0, outFrames |-> 0, midiIn |-> <<>>, midiOutCapacity |-> 0]
NoContext == [totalFramesRendered |-> 0, start |-> 0, numFrames |-> 0,
              midiIn |-> 0, frameOffset |-> 0, midiInCount |-> 0,
              midiOutCount |-> 0, midiOutCapacity |-> 0]
NoBuildResult == [built |-> FALSE, args |-> NoBuild, numIn |-> 0, numOut |-> 0,
                  pre |-> <<>>, post |-> <<>>, renders |-> 0]
NoOutputEvents == [j \in 1..Len(outputEndpoints) |-> <<>>]
NoProbes == [i \in 1..Len(inputEndpoints) |-> <<>>]

(* An entry of the host's outbound buffer that was never written. *)
Unwritten == [frameIndex |-> -1, data |-> -1]

(* One recorded call: the function, the endpoint handle, up to three arguments,
   and the index of the sub-block it was made in. *)
Call(fn, h, a, b, c) ==
    [fn |-> fn, h |-> h, a |-> a, b |-> b, c |-> c, block |-> Len(subBlocks)]

----------------------------------------------------------------------------
(* The environment a specification draws its inputs from. *)

SeqsUpTo(S, n) == UNION {[1..k -> S] : k \in 0..n}

Engine(ins, outs) == [inputs |-> ins, outputs |-> outs]

ParameterInputs(ins) == {i \in 1..Len(ins) : isParameterInput(ins[i])}

(* The providers a build may be given for an engine with inputs `ins`: every
   combination of absent and supplied callbacks, or all three supplied. *)
Providers(ins, dom) ==
    IF dom.anyProviders
    THEN [newValueFn : {[present |-> FALSE, provides |-> {}]}
                         \cup [present : {TRUE}, provides : SUBSET ParameterInputs(ins)],
          rampFn : {[present |-> FALSE, frames |-> 0]}
                     \cup [present : {TRUE}, frames : dom.ramps],
          unusedFn : [present : BOOLEAN]]
    ELSE [newValueFn : {[present |-> TRUE, provides |-> ParameterInputs(ins)]},
          rampFn : [present : {TRUE}, frames : dom.ramps],
          unusedFn : [present : {TRUE}]]

(* Inbound event lists: any order of timestamps; data identifies the event. *)
EventLists(times) ==
    {[k \in 1..Len(ts) |-> [frameIndex |-> ts[k], data |-> k]] : ts \in SeqsUpTo(times, MaxEvents)}

IsSorted(list) ==
    \A k \in 1..Len(list) - 1 : list[k].frameIndex <= list[k + 1].frameIndex

----------------------------------------------------------------------------
(* Initial state: a constructed wrapper around an engine of dom.engines. *)

InitFor(dom) ==
    /\ \E e \in dom.engines :
          /\ inputEndpoints = e.inputs
          /\ outputEndpoints = e.outputs
          /\ outputEvents = [j \in 1..Len(e.outputs) |-> <<>>]
          /\ detector = [i \in 1..Len(e.inputs) |-> <<>>]
    /\ preparedFrames = 0
    /\ totalFramesRendered = 0
    /\ preRenderOperations = <<>>
    /\ postRenderOperations = <<>>
    /\ numInputChannelsExpected = 0
    /\ numOutputChannelsExpected = 0
    /\ maxBlockSize = 0
    /\ pc = "idle"
    /\ build = NoBuild
    /\ host = NoHost
    /\ outer = NoContext
    /\ context = NoContext
    /\ framesRemaining = 0
    /\ framesToDo = 0
    /\ midiOut = <<>>
    /\ opIndex = 0
    /\ numMIDIOutMessages = 0
    /\ calls = <<>>
    /\ subBlocks = <<>>
    /\ renders = 0
    /\ produced = 0
    /\ lastBuild = NoBuildResult
    /\ prevBuild = NoBuildResult

----------------------------------------------------------------------------
(* reset() *)

(* Mutant of resetOperations: the compiled operations are kept. *)
resetOperationsKept(ops) == ops

resetOperations(ops) == <<>>

Reset ==
    /\ pc = "idle"
    /\ totalFramesRendered' = 0
    /\ preRenderOperations' = resetOperations(preRenderOperations)
    /\ postRenderOperations' = resetOperations(postRenderOperations)
    /\ numInputChannelsExpected' = 0
    /\ numOutputChannelsExpected' = 0
    /\ maxBlockSize' = 0
    /\ renders' = 0
    /\ UNCHANGED <<engineVars, preparedFrames, outputEvents, pc, build, loopVars,
                   midiOut, opIndex, numMIDIOutMessages, detector, calls, subBlocks,
                   produced, buildObs>>

----------------------------------------------------------------------------
(* buildRenderingPipeline *)

BuildPhase(index) ==
    IF index <= Len(inputEndpoints) THEN "buildInputs" ELSE "buildOutputs"

buildPrecondition(processorMaxBlockSize) == processorMaxBlockSize > 0

(* Entry: reset() and the effective block size.  The observer keeps the
   result of the last build only when this build repeats its arguments. *)
BuildBegin(dom) ==
    /\ pc = "idle"
    /\ \E size \in dom.requests, p \in Providers(inputEndpoints, dom) :
          LET args == [processorMaxBlockSize |-> size, newValueFn |-> p.newValueFn,
                       rampFn |-> p.rampFn, unusedFn |-> p.unusedFn, index |-> 0]
          IN  /\ buildPrecondition(size)
              /\ build' = [args EXCEPT !.index = 1]
              /\ prevBuild' = IF lastBuild.args = args
                              THEN [lastBuild EXCEPT !.renders = renders]
                              ELSE NoBuildResult
              /\ maxBlockSize' = effectiveBlockSize(size)
    /\ totalFramesRendered' = 0
    /\ preRenderOperations' = resetOperations(preRenderOperations)
    /\ postRenderOperations' = resetOperations(postRenderOperations)
    /\ numInputChannelsExpected' = 0
    /\ numOutputChannelsExpected' = 0
    /\ renders' = 0
    /\ detector' = NoProbes
    /\ pc' = BuildPhase(1)
    /\ lastBuild' = NoBuildResult
    /\ UNCHANGED <<engineVars, preparedFrames, outputEvents, loopVars, midiOut,
                   opIndex, numMIDIOutMessages, calls, subBlocks, produced>>

(* A build whose size assertion fails halts before reset(). *)
BuildHalt(dom) ==
    /\ pc = "idle"
    /\ \E size \in dom.requests :
          /\ ~buildPrecondition(size)
          /\ build' = [NoBuild EXCEPT !.processorMaxBlockSize = size]
    /\ pc' = "halted"
    /\ UNCHANGED <<engineVars, preparedFrames, outputEvents, wrapperVars, loopVars,
                   midiOut, opIndex, numMIDIOutMessages, detector, calls, subBlocks,
                   renders, produced, buildObs>>

(* One iteration of the loop over the input endpoints. *)
BuildInput ==
    /\ pc = "buildInputs"
    /\ LET i == build.index
           c == compileInputEndpoint(inputEndpoints[i], i, build, numInputChannelsExpected)
       IN  /\ preRenderOperations' = preRenderOperations \o c.ops
           /\ numInputChannelsExpected' = advanceChannels(numInputChannelsExpected, c.chans)
           /\ build' = [build EXCEPT !.index = i + 1]
           /\ pc' = IF c.halt THEN "halted" ELSE BuildPhase(i + 1)
    /\ UNCHANGED <<engineVars, preparedFrames, outputEvents, totalFramesRendered,
                   postRenderOperations, numOutputChannelsExpected, maxBlockSize,
                   loopVars, midiOut, opIndex, numMIDIOutMessages, detector, calls,
                   subBlocks, renders, produced, buildObs>>

(* One iteration of the loop over the output endpoints. *)
BuildOutput ==
    /\ pc = "buildOutputs"
    /\ build.index <= Len(inputEndpoints) + Len(outputEndpoints)
    /\ LET j == build.index - Len(inputEndpoints)
           c == compileOutputEndpoint(outputEndpoints[j], j, build, numOutputChannelsExpected)
       IN  /\ postRenderOperations' = postRenderOperations \o c.ops
           /\ numOutputChannelsExpected' = advanceChannels(numOutputChannelsExpected, c.chans)
           /\ build' = [build EXCEPT !.index = @ + 1]
           /\ pc' = IF c.halt THEN "halted" ELSE "buildOutputs"
    /\ UNCHANGED <<engineVars, preparedFrames, outputEvents, totalFramesRendered,
                   preRenderOperations, numInputChannelsExpected, maxBlockSize,
                   loopVars, midiOut, opIndex, numMIDIOutMessages, detector, calls,
                   subBlocks, renders, produced, buildObs>>

(* buildRenderingPipeline returns. *)
BuildReturn ==
    /\ pc = "buildOutputs"
    /\ build.index > Len(inputEndpoints) + Len(outputEndpoints)
    /\ pc' = "idle"
    /\ build' = NoBuild
    /\ lastBuild' = [built |-> TRUE, args |-> [build EXCEPT !.index = 0],
                     numIn |-> numInputChannelsExpected,
                     numOut |-> numOutputChannelsExpected,
                     pre |-> preRenderOperations,
                     post |-> postRenderOperations,
                     renders |-> 0]
    /\ UNCHANGED <<engineVars, preparedFrames, outputEvents, wrapperVars, loopVars,
                   midiOut, opIndex, numMIDIOutMessages, detector, calls, subBlocks,
                   renders, produced, prevBuild>>

----------------------------------------------------------------------------
(* render: the precondition and the RenderContext it constructs. *)

(* Mutant of renderPrecondition: the block size is not tested. *)
renderPreconditionFramesOnly(numFrames, outFrames, blockSize) ==
    numFrames = outFrames

renderPrecondition(numFrames, outFrames, blockSize) ==
    numFrames = outFrames /\ blockSize # 0

RenderBegin(dom) ==
    /\ pc = "idle"
    /\ renders < dom.renders
    /\ \E numFrames \in dom.frames, outFrames \in dom.frames,
          list \in EventLists(dom.times), capacity \in dom.capacities :
          /\ numFrames <= MaxSplits * maxBlockSize
          /\ renderPrecondition(numFrames, outFrames, maxBlockSize)
          /\ host' = [numFrames |-> numFrames, outFrames |-> outFrames,
                      midiIn |-> list, midiOutCapacity |-> capacity]
          /\ outer' = [totalFramesRendered |-> totalFramesRendered,
                       start |-> 0, numFrames |-> numFrames,
                       midiIn |-> 0, frameOffset |-> 0,
                       midiInCount |-> Len(list), midiOutCount |-> 0,
                       midiOutCapacity |-> capacity]
          /\ context' = outer'
          /\ framesRemaining' = numFrames
          /\ midiOut' = [k \in 1..capacity |-> Unwritten]
    /\ renders' = renders + 1
    /\ pc' = "loop"
    /\ calls' = <<>>
    /\ subBlocks' = <<>>
    /\ produced' = 0
    /\ UNCHANGED <<engineVars, preparedFrames, outputEvents, wrapperVars, build,
                   framesToDo, opIndex, numMIDIOutMessages, detector, buildObs>>

(* A render call whose precondition fails: the assertion halts it before the
   RenderContext is constructed. *)
RenderHalt(dom) ==
    /\ pc = "idle"
    /\ \E numFrames \in dom.frames, outFrames \in dom.frames :
          /\ ~renderPrecondition(numFrames, outFrames, maxBlockSize)
          /\ host' = [numFrames |-> numFrames, outFrames |-> outFrames,
                      midiIn |-> <<>>, midiOutCapacity |-> 0]
    /\ pc' = "halted"
    /\ UNCHANGED <<engineVars, preparedFrames, outputEvents, wrapperVars, build, outer,
                   context, framesRemaining, framesToDo, midiOut, opIndex,
                   numMIDIOutMessages, detector, calls, subBlocks, renders, produced,
                   buildObs>>

----------------------------------------------------------------------------
(* RenderContext::iterateInBlocks *)

(* Mutant of initialFramesToDo: the cap is not taken into account. *)
initialFramesToDoNoCap(maxFramesPerBlock, remaining) == remaining

(* Mutant of initialFramesToDo: the remaining frames are not taken into account. *)
initialFramesToDoNoRemaining(maxFramesPerBlock, remaining) == maxFramesPerBlock

initialFramesToDo(maxFramesPerBlock, remaining) == Min(maxFramesPerBlock, remaining)

(* Mutants of framesUntilEvent: the sub-block is not cut at the next event;
   the event's time is taken for its distance. *)
framesUntilEventNoCut(toDo, time, frameOffset) == toDo

framesUntilEventAbsolute(toDo, time, frameOffset) == Min(toDo, time)

(* Mutant of isFutureEvent: the event's time is not looked at. *)
isFutureEventNever(time, frameOffset) == FALSE

(* Mutant of isFutureEvent: an event at the cursor is taken for a future one. *)
isFutureEventOrDue(time, frameOffset) == time >= frameOffset

(* The inner while's test: the event at the cursor is not yet due. *)
isFutureEvent(time, frameOffset) == time > frameOffset

framesUntilEvent(toDo, time, frameOffset) == Min(toDo, time - frameOffset)

(* The inner while loop: consume the events that are due, and cut the
   sub-block at the first future event.  midiIn counts the events before the
   cursor; taken is context.midiInCount. *)
RECURSIVE takeDueEvents(_, _, _, _, _, _)
takeDueEvents(list, midiIn, midiInCount, frameOffset, toDo, taken) ==
    IF midiInCount = 0
    THEN [midiIn |-> midiIn, midiInCount |-> midiInCount, framesToDo |-> toDo, taken |-> taken]
    ELSE LET time == list[midiIn + 1].frameIndex
         IN  IF isFutureEvent(time, frameOffset)
             THEN [midiIn |-> midiIn, midiInCount |-> midiInCount,
                   framesToDo |-> framesUntilEvent(toDo, time, frameOffset), taken |-> taken]
             ELSE takeDueEvents(list, midiIn + 1, midiInCount - 1, frameOffset, toDo, taken + 1)

(* The loop body up to the call of the render callback. *)
BeginSubBlock ==
    /\ pc = "loop"
    /\ framesRemaining # 0
    /\ LET r == takeDueEvents(host.midiIn, outer.midiIn, outer.midiInCount, outer.frameOffset,
                              initialFramesToDo(maxBlockSize, framesRemaining), 0)
       IN  /\ framesToDo' = r.framesToDo
           /\ outer' = [outer EXCEPT !.midiIn = r.midiIn, !.midiInCount = r.midiInCount]
           /\ context' = [context EXCEPT !.midiIn = outer.midiIn, !.midiInCount = r.taken,
                                         !.start = outer.frameOffset,
                                         !.numFrames = r.framesToDo]
           /\ subBlocks' = Append(subBlocks,
                                  [start |-> outer.frameOffset, numFrames |-> r.framesToDo,
                                   frameOffset |-> context.frameOffset,
                                   totalFramesRendered |-> context.totalFramesRendered,
                                   first |-> outer.midiIn, count |-> r.taken])
    /\ pc' = "callback"
    /\ UNCHANGED <<engineVars, preparedFrames, outputEvents, wrapperVars, build, host,
                   framesRemaining, midiOut, opIndex, numMIDIOutMessages, detector,
                   calls, renders, produced, buildObs>>

(* The callback of render: performer.prepare. *)
Prepare ==
    /\ pc = "callback"
    /\ preparedFrames' = context.numFrames
    /\ calls' = Append(calls, Call("prepare", 0, context.numFrames, 0, 0))
    /\ opIndex' = 1
    /\ pc' = "pre"
    /\ UNCHANGED <<engineVars, outputEvents, wrapperVars, build, loopVars, midiOut,
                   numMIDIOutMessages, detector, subBlocks, renders, produced, buildObs>>

(* Mutant of operationAt: the list is run from its last operation. *)
operationAtReversed(ops, index) == ops[Len(ops) + 1 - index]

(* for (auto& op : operations): the operation the loop runs at `index`. *)
operationAt(ops, index) == ops[index]

isParameterOperation(op) == op.kind \in {"paramEvent", "paramStream", "paramValue"}

Count(s, v) == Cardinality({k \in 1..Len(s) : s[k] = v})

(* What a probe of the operation's detector may return: a value or nothing. *)
ProbeResults(op, dom) ==
    IF /\ isParameterOperation(op)
       /\ dom.changes
       /\ Count(detector[op.handle], TRUE) < MaxNewValues
    THEN BOOLEAN
    ELSE {FALSE}

Flag(b) == IF b THEN 1 ELSE 0

(* Mutant of windowEvents: the window is read from the start of the list. *)
windowEventsFromListStart(list, midiIn, midiInCount) ==
    [k \in 1..midiInCount |-> list[k]]

(* The MIDI input operation's loop: rc.midiIn[0 .. rc.midiInCount - 1]. *)
windowEvents(list, midiIn, midiInCount) ==
    [k \in 1..midiInCount |-> list[midiIn + k]]

(* Mutant of hasNewValue: the probe's result is not tested. *)
hasNewValueUntested(newValue) == TRUE

(* if (auto newValue = getNewValueForParamIfChanged()) *)
hasNewValue(newValue) == newValue

(* The calls one pre-render operation makes.  A parameter operation probes
   its detector, getNewValueForParamIfChanged, and newValue tells whether the
   probe returned a value. *)
preRenderCalls(op, newValue) ==
    IF op.kind = "paramEvent"
    THEN <<Call("getNewValueForParamIfChanged", op.handle, Flag(newValue), 0, 0)>>
         \o (IF hasNewValue(newValue)
             THEN <<Call("addInputEvent", op.handle, 0, 0, 0)>>
             ELSE <<>>)
    ELSE IF op.kind = "paramStream"
    THEN <<Call("getNewValueForParamIfChanged", op.handle, Flag(newValue), 0, 0)>>
         \o (IF hasNewValue(newValue)
             THEN <<Call("setSparseInputStreamTarget", op.handle, op.rampFrames, 0, 0)>>
             ELSE <<>>)
    ELSE IF op.kind = "paramValue"
    THEN <<Call("getNewValueForParamIfChanged", op.handle, Flag(newValue), 0, 0)>>
         \o (IF hasNewValue(newValue)
             THEN <<Call("setInputValue", op.handle, 0, 0, 0)>>
             ELSE <<>>)
    ELSE IF op.kind = "midiIn"
    THEN LET events == windowEvents(host.midiIn, context.midiIn, context.midiInCount)
         IN  [k \in 1..Len(events) |->
                Call("addInputEvent", op.handle, events[k].data, 0, 0)]
    ELSE <<Call("setNextInputStreamFrames", op.handle, op.startChannel, op.numChans,
                context.numFrames)>>

(* One iteration of the loop over preRenderOperations. *)
PreRender(dom) ==
    /\ pc = "pre"
    /\ opIndex <= Len(preRenderOperations)
    /\ LET op == operationAt(preRenderOperations, opIndex)
       IN  \E newValue \in ProbeResults(op, dom) :
              /\ detector' = IF isParameterOperation(op)
                             THEN [detector EXCEPT ![op.handle] = Append(@, newValue)]
                             ELSE detector
              /\ calls' = Append(calls, Call("preRenderOperation", opIndex, op.handle, 0, 0))
                             \o preRenderCalls(op, newValue)
    /\ opIndex' = opIndex + 1
    /\ UNCHANGED <<engineVars, preparedFrames, outputEvents, wrapperVars, pc, build,
                   loopVars, midiOut, numMIDIOutMessages, subBlocks, renders, produced,
                   buildObs>>

----------------------------------------------------------------------------
(* performer.advance(): the engine renders the prepared frames and may
   produce events on its event outputs. *)

EventOutputs == {j \in 1..Len(outputEndpoints) : isEvent(outputEndpoints[j])}

IsNonDecreasing(s) == \A k \in 1..Len(s) - 1 : s[k] <= s[k + 1]

ProducedOffsets(numFrames) == {0, numFrames - 1}

TotalLen(f) ==
    LET RECURSIVE Sum(_)
        Sum(S) == IF S = {} THEN 0
                  ELSE LET j == CHOOSE x \in S : TRUE IN Len(f[j]) + Sum(S \ {j})
    IN  Sum(DOMAIN f)

(* The offsets of the events the engine may produce per event output. *)
Productions(numFrames, budget) ==
    {f \in [EventOutputs -> SeqsUpTo(ProducedOffsets(numFrames), budget)] :
        /\ TotalLen(f) <= budget
        /\ \A j \in EventOutputs : IsNonDecreasing(f[j])}

Advance(dom) ==
    /\ pc = "pre"
    /\ opIndex > Len(preRenderOperations)
    /\ \E f \in Productions(preparedFrames, IF dom.produces THEN MaxProduce - produced ELSE 0) :
          /\ outputEvents' = [j \in 1..Len(outputEndpoints) |->
                                IF j \in EventOutputs
                                THEN [k \in 1..Len(f[j]) |->
                                        [frameOffset |-> f[j][k],
                                         data |-> 100 * j + produced + k]]
                                ELSE <<>>]
          /\ produced' = produced + TotalLen(f)
    /\ calls' = Append(calls, Call("advance", 0, preparedFrames, 0, 0))
    /\ opIndex' = 1
    /\ pc' = "post"
    /\ UNCHANGED <<engineVars, preparedFrames, wrapperVars, build, loopVars, midiOut,
                   numMIDIOutMessages, detector, subBlocks, renders, buildObs>>

----------------------------------------------------------------------------
(* The post-render operations. *)

(* Mutant of hasRoom: the bound is tested one entry late. *)
hasRoomOffByOne(count, capacity) == count <= capacity

hasRoom(count, capacity) == count < capacity

(* Mutant of midiOutTime: the time is counted from the last build, as the
   unused-event operation counts it. *)
midiOutTimeAbsolute(rc, frameOffset) == rc.totalFramesRendered + frameOffset

(* MIDIEvent::fromPackedMIDIData (rc.frameOffset + frameOffset, ...) *)
midiOutTime(rc, frameOffset) == rc.frameOffset + frameOffset

(* Mutant of midiOutSlot: the count is incremented before it is used. *)
midiOutSlotPreIncrement(count) == count + 2

(* rc.midiOut[rc.midiOutCount++]: the entry written, counting entries from 1. *)
midiOutSlot(count) == count + 1

(* The MIDI output operation's callback over the produced events. *)
RECURSIVE writeMidiOut(_, _, _, _, _)
writeMidiOut(events, buffer, count, capacity, rc) ==
    IF events = <<>>
    THEN [buffer |-> buffer, count |-> count]
    ELSE IF hasRoom(count, capacity)
         THEN writeMidiOut(Tail(events),
                           [k \in DOMAIN buffer |->
                               IF k = midiOutSlot(count)
                               THEN [frameIndex |-> midiOutTime(rc, Head(events).frameOffset),
                                     data |-> Head(events).data]
                               ELSE buffer[k]],
                           count + 1, capacity, rc)
         ELSE writeMidiOut(Tail(events), buffer, count, capacity, rc)

(* Performer::iterateOutputEvents: the events visited when the callback first
   returns false at event `stop` (0: it never does). *)
iterateOutputEvents(events, stop) ==
    SubSeq(events, 1, IF stop = 0 THEN Len(events) ELSE stop)

(* Mutant of unusedEventTime: the time is counted from the start of the host
   block, as the MIDI output operation counts it. *)
unusedEventTimeInBlock(rc, frameOffset) == rc.frameOffset + frameOffset

unusedEventTime(rc, frameOffset) == rc.totalFramesRendered + frameOffset

(* Mutant of unusedEventResult: the lambda always asks for the next event, as
   the MIDI output operation's lambda does. *)
unusedEventResultTrue(returned) == TRUE

(* return handleUnusedEventFn (...): what the unused-event operation's lambda
   returns to iterateOutputEvents when the callback returned `returned`. *)
unusedEventResult(returned) == returned

(* The calls one post-render operation makes; `stop` is the event at which
   the unused-event callback first returns false (0: it never does). *)
postRenderCalls(op, stop) ==
    IF op.kind = "midiOut"
    THEN <<Call("iterateOutputEvents", op.handle, Len(outputEvents[op.handle]), 0, 0)>>
    ELSE IF op.kind = "audioOut"
    THEN <<Call("getOutputStreamFrames", op.handle, op.startChannel, op.numChans, 0)>>
    ELSE LET visited == iterateOutputEvents(outputEvents[op.handle],
                                            IF unusedEventResult(FALSE) THEN 0 ELSE stop)
         IN  <<Call("iterateOutputEvents", op.handle, Len(outputEvents[op.handle]), 0, 0)>>
             \o [k \in 1..Len(visited) |->
                    Call("handleUnusedEvent", op.handle,
                         unusedEventTime(context, visited[k].frameOffset),
                         visited[k].data,
                         IF k = stop THEN 0 ELSE 1)]

(* Where the unused-event callback may first return false. *)
StopChoices(op) ==
    IF op.kind = "unusedEvent" THEN 0..Len(outputEvents[op.handle]) ELSE {0}

(* One iteration of the loop over postRenderOperations. *)
PostRender ==
    /\ pc = "post"
    /\ opIndex <= Len(postRenderOperations)
    /\ LET op == operationAt(postRenderOperations, opIndex)
           w  == writeMidiOut(outputEvents[op.handle], midiOut, context.midiOutCount,
                              context.midiOutCapacity, context)
       IN  /\ \E stop \in StopChoices(op) :
                 calls' = Append(calls, Call("postRenderOperation", opIndex, op.handle, 0, 0))
                             \o postRenderCalls(op, stop)
           /\ IF op.kind = "midiOut"
              THEN /\ midiOut' = w.buffer
                   /\ context' = [context EXCEPT !.midiOutCount = w.count]
              ELSE UNCHANGED <<midiOut, context>>
    /\ opIndex' = opIndex + 1
    /\ UNCHANGED <<engineVars, preparedFrames, outputEvents, wrapperVars, pc, build,
                   host, outer, framesRemaining, framesToDo, numMIDIOutMessages,
                   detector, subBlocks, renders, produced, buildObs>>

(* The callback returned: the end of the loop body.  The events of this
   advance are not read again (the next advance replaces them), so the model
   drops them here. *)
EndSubBlock ==
    /\ pc = "post"
    /\ opIndex > Len(postRenderOperations)
    /\ outer' = [outer EXCEPT !.frameOffset = @ + framesToDo]
    /\ framesRemaining' = framesRemaining - framesToDo
    /\ context' = [context EXCEPT !.totalFramesRendered = @ + framesToDo,
                                  !.frameOffset = @ + framesToDo]
    /\ outputEvents' = NoOutputEvents
    /\ pc' = "loop"
    /\ UNCHANGED <<engineVars, preparedFrames, wrapperVars, build, host,
                   framesToDo, midiOut, opIndex, numMIDIOutMessages, detector, calls,
                   subBlocks, renders, produced, buildObs>>

(* The loop ends: iterateInBlocks copies the outbound count back. *)
ExitLoop ==
    /\ pc = "loop"
    /\ framesRemaining = 0
    /\ outer' = [outer EXCEPT !.midiOutCount = context.midiOutCount]
    /\ pc' = "rendered"
    /\ UNCHANGED <<engineVars, preparedFrames, outputEvents, wrapperVars, build, host,
                   context, framesRemaining, framesToDo, midiOut, opIndex,
                   numMIDIOutMessages, detector, calls, subBlocks, renders, produced,
                   buildObs>>

(* render returns: the out-parameter and the running frame counter. *)
RenderReturn ==
    /\ pc = "rendered"
    /\ numMIDIOutMessages' = outer.midiOutCount
    /\ totalFramesRendered' = totalFramesRendered + host.numFrames
    /\ pc' = "idle"
    /\ host' = NoHost
    /\ outer' = NoContext
    /\ context' = NoContext
    /\ framesRemaining' = 0
    /\ framesToDo' = 0
    /\ midiOut' = <<>>
    /\ opIndex' = 0
    /\ calls' = <<>>
    /\ subBlocks' = <<>>
    /\ produced' = 0
    /\ UNCHANGED <<engineVars, preparedFrames, outputEvents, preRenderOperations,
                   postRenderOperations, numInputChannelsExpected,
                   numOutputChannelsExpected, maxBlockSize, build, detector, renders,
                   buildObs>>

----------------------------------------------------------------------------
(* The specifications: the same operations over three environments. *)

NextFor(dom) ==
    \/ Reset
    \/ BuildBegin(dom)
    \/ BuildHalt(dom)
    \/ BuildInput
    \/ BuildOutput
    \/ BuildReturn
    \/ RenderBegin(dom)
    \/ RenderHalt(dom)
    \/ BeginSubBlock
    \/ Prepare
    \/ PreRender(dom)
    \/ Advance(dom)
    \/ PostRender
    \/ EndSubBlock
    \/ ExitLoop
    \/ RenderReturn

(* Block splitting: engines with MIDI and audio inputs, block sizes and
   timestamps around the ceiling of 512. *)
SplitDomain ==
    [engines |-> {Engine(<<MidiEvent, AudioMono>>, <<AudioMono>>),
                  Engine(<<MidiEvent, MidiEvent>>, <<AudioMono, AudioStereo>>)},
     requests |-> {0, 2, 600},
     anyProviders |-> FALSE,
     ramps |-> {0},
     frames |-> {0, 3, 512, 1024},
     renders |-> MaxRenders,
     times |-> {0, 2, 100, 512},
     capacities |-> {1},
     changes |-> FALSE,
     produces |-> FALSE]

(* Event traffic: parameter detectors, MIDI and event outputs that produce
   events, a cap of 2 and the ceiling of 512, no inbound events. *)
EventDomain ==
    [engines |-> {Engine(<<ParamEvent>>, <<AudioMono>>),
                  Engine(<<AudioMono>>, <<MidiEvent, MidiEvent>>),
                  Engine(<<MidiEvent>>, <<PlainEvent>>)},
     requests |-> {0, 2, 600},
     anyProviders |-> FALSE,
     ramps |-> {0},
     frames |-> {0, 3, 1024},
     renders |-> MaxRenders,
     times |-> {},
     capacities |-> 0..MaxCapacity,
     changes |-> TRUE,
     produces |-> TRUE]

InputKinds == {ParamEvent, ParamStream, ParamValue, MidiEvent, AudioMono, AudioStereo,
               AudioInt, PlainEvent}
OutputKinds == {MidiEvent, AudioMono, AudioStereo, AudioInt, PlainEvent}

(* Building: every engine of up to MaxEndpoints endpoints, every combination
   of providers; the engine is silent, no parameter changes, and one render
   call of one frame may follow a build. *)
BuildDomain ==
    [engines |-> {e \in {Engine(ins, outs) : ins \in SeqsUpTo(InputKinds, MaxEndpoints),
                                             outs \in SeqsUpTo(OutputKinds, MaxEndpoints)} :
                     Len(e.inputs) + Len(e.outputs) <= MaxEndpoints},
     requests |-> {0, 2},
     anyProviders |-> TRUE,
     ramps |-> {64},
     frames |-> {1},
     renders |-> 1,
     times |-> {},
     capacities |-> {1},
     changes |-> FALSE,
     produces |-> FALSE]

Init == InitFor(SplitDomain)
Next == NextFor(SplitDomain)
Spec == Init /\ [][Next]_vars

InitEvents == InitFor(EventDomain)
NextEvents == NextFor(EventDomain)
SpecEvents == InitEvents /\ [][NextEvents]_vars

InitBuild == InitFor(BuildDomain)
NextBuild == NextFor(BuildDomain)
SpecBuild == InitBuild /\ [][NextBuild]_vars

(* Termination: one MIDI input, caps of 1 and 2, blocks of 0 and 3 frames,
   event lists in any order with timestamps inside and beyond the block.
   render is synchronous and single-threaded: once called, the steps of its
   loop are taken one after the other, the engine's calls returning. *)
TerminationDomain ==
    [engines |-> {Engine(<<MidiEvent>>, <<AudioMono>>)},
     requests |-> {0, 1, 2},
     anyProviders |-> FALSE,
     ramps |-> {0},
     frames |-> {0, 3},
     renders |-> MaxRenders,
     times |-> {0, 1, 2, 5},
     capacities |-> {1},
     changes |-> FALSE,
     produces |-> FALSE]

RenderSteps(dom) ==
    \/ BeginSubBlock
    \/ Prepare
    \/ PreRender(dom)
    \/ Advance(dom)
    \/ PostRender
    \/ EndSubBlock
    \/ ExitLoop
    \/ RenderReturn

InitTermination == InitFor(TerminationDomain)
NextTermination == NextFor(TerminationDomain)
SpecTermination ==
    InitTermination /\ [][NextTermination]_vars /\ WF_vars(RenderSteps(TerminationDomain))

----------------------------------------------------------------------------
(* What the observers show of the current render call. *)

Rendered == pc = "rendered"

SubBlockEnd(k) == subBlocks[k].start + subBlocks[k].numFrames

CallsOf(fn) == SelectSeq(calls, LAMBDA c : c.fn = fn)

(* The frame counts of the engine advances, in order. *)
Advances == [k \in 1..Len(CallsOf("advance")) |-> CallsOf("advance")[k].a]

(* The inbound events forwarded to input handle h, in order. *)
ForwardedTo(h) ==
    LET cs == SelectSeq(calls, LAMBDA c : c.fn = "addInputEvent" /\ c.h = h)
    IN  [k \in 1..Len(cs) |-> cs[k].a]

MidiInputs == {i \in 1..Len(inputEndpoints) : isMIDIEventEndpoint(inputEndpoints[i])}

(* The indices of the inbound events in the window of sub-block k. *)
Window(k) == (subBlocks[k].first + 1)..(subBlocks[k].first + subBlocks[k].count)

Timestamps == {host.midiIn[e].frameIndex : e \in 1..Len(host.midiIn)}

(* The effective cap a build requested with `size` must give. *)
CapOf(size) == IF size < HardCeiling THEN size ELSE HardCeiling

----------------------------------------------------------------------------
(* C1: the sub-blocks of one render call are contiguous and disjoint: the
   first starts at frame 0, each starts where the previous one ended, none
   reaches beyond the block, and when the loop has ended their frame
   counts sum to the block's frame count B. *)
C1_SubBlocksTileTheBlock ==
    /\ \A k \in 1..Len(subBlocks) :
          /\ subBlocks[k].start = IF k = 1 THEN 0 ELSE SubBlockEnd(k - 1)
          /\ subBlocks[k].numFrames >= 1
          /\ SubBlockEnd(k) <= host.numFrames
    /\ Rendered =>
          /\ SeqSum([k \in 1..Len(subBlocks) |-> subBlocks[k].numFrames]) = host.numFrames
          /\ SeqSum(Advances) = host.numFrames

(* A block of 1024 frames with an event inside was split in three. *)
C1_Witness ==
    /\ Rendered
    /\ host.numFrames = 1024
    /\ Len(host.midiIn) >= 1
    /\ Len(subBlocks) = 3

(* C2: after buildRenderingPipeline(requested, ...) with requested > 0 no
   engine prepare or advance of a later render call is sized to more than
   min(requested, 512) frames. *)
C2_AdvanceWithinCap ==
    \A k \in 1..Len(calls) :
        calls[k].fn \in {"prepare", "advance"} =>
            /\ lastBuild.built
            /\ calls[k].a <= CapOf(lastBuild.args.processorMaxBlockSize)

(* Built with 600 requested, a 1024-frame block was advanced by 512 frames. *)
C2_Witness ==
    /\ lastBuild.built
    /\ lastBuild.args.processorMaxBlockSize = 600
    /\ host.numFrames = 1024
    /\ \E k \in 1..Len(calls) : calls[k].fn = "advance" /\ calls[k].a = 512

(* C3: when the inbound list is sorted by frame offset, every event in a
   sub-block's window, and every event forwarded to the engine during that
   sub-block, has the sub-block's start offset as its timestamp. *)
C3_EventsAtSubBlockStart ==
    IsSorted(host.midiIn) =>
        /\ \A k \in 1..Len(subBlocks) : \A e \in Window(k) :
              host.midiIn[e].frameIndex = subBlocks[k].start
        /\ \A n \in 1..Len(calls) :
              (calls[n].fn = "addInputEvent" /\ calls[n].h \in MidiInputs) =>
                  host.midiIn[calls[n].a].frameIndex = subBlocks[calls[n].block].start

(* A sorted two-event list: the event at 100 was forwarded in a sub-block
   starting at 100 that came after an earlier sub-block. *)
C3_Witness ==
    /\ Len(host.midiIn) = 2
    /\ IsSorted(host.midiIn)
    /\ \E n \in 1..Len(calls) :
          /\ calls[n].fn = "addInputEvent"
          /\ host.midiIn[calls[n].a].frameIndex = 100
          /\ calls[n].block >= 2
          /\ subBlocks[calls[n].block].start = 100

(* The identity sequence 1..n: the first n inbound events in list order. *)
FirstEvents(n) == [k \in 1..n |-> k]

(* The length of the longest prefix of the inbound list whose timestamps
   all lie inside the block. *)
InBlockPrefix ==
    CHOOSE n \in 0..Len(host.midiIn) :
        /\ \A k \in 1..n : host.midiIn[k].frameIndex < host.numFrames
        /\ n = Len(host.midiIn) \/ host.midiIn[n + 1].frameIndex >= host.numFrames

(* C4, as claimed: when render's loop has ended every inbound event has been
   forwarded to every MIDI input endpoint exactly once, in list order. *)
C4_EveryEventForwarded ==
    Rendered => \A h \in MidiInputs : ForwardedTo(h) = FirstEvents(Len(host.midiIn))

(* C4, amended: at no moment is an event forwarded twice or out of list
   order to a MIDI input endpoint, and when the loop has ended each endpoint
   has received exactly the events of the longest prefix of the list whose
   timestamps are below the block's frame count; the events from the first
   one at or beyond the end of the block on are not forwarded. *)
C4_InBlockEventsForwardedOnce ==
    /\ \A h \in MidiInputs : ForwardedTo(h) = FirstEvents(Len(ForwardedTo(h)))
    /\ Rendered => \A h \in MidiInputs : ForwardedTo(h) = FirstEvents(InBlockPrefix)

(* Two MIDI inputs received both events of a list, in two sub-blocks. *)
C4_Witness ==
    /\ Rendered
    /\ Cardinality(MidiInputs) = 2
    /\ Len(host.midiIn) = 2
    /\ InBlockPrefix = 2
    /\ \A h \in MidiInputs : ForwardedTo(h) = <<1, 2>>
    /\ \E k \in 1..Len(subBlocks) - 1 : subBlocks[k].count = 1 /\ subBlocks[k + 1].count = 1

(* The boundaries between sub-blocks: every sub-block end but the block's. *)
InnerBoundaries == {k \in 1..Len(subBlocks) : SubBlockEnd(k) # host.numFrames}

(* C5, as claimed: for a non-empty sorted list every sub-block boundary but
   the end of the block is the timestamp of some inbound event. *)
C5_BoundariesAtEvents ==
    (host.midiIn # <<>> /\ IsSorted(host.midiIn)) =>
        \A k \in InnerBoundaries : SubBlockEnd(k) \in Timestamps

(* C5, amended: for a non-empty sorted list every sub-block boundary but the
   end of the block is the timestamp of some inbound event or ends a
   sub-block of exactly maxBlockSize frames. *)
C5_BoundariesAtEventsOrCap ==
    (host.midiIn # <<>> /\ IsSorted(host.midiIn)) =>
        \A k \in InnerBoundaries :
            SubBlockEnd(k) \in Timestamps \/ subBlocks[k].numFrames = maxBlockSize

(* A sorted list gave one boundary at an event and one at the cap. *)
C5_Witness ==
    /\ Rendered
    /\ host.midiIn # <<>>
    /\ IsSorted(host.midiIn)
    /\ \E k \in InnerBoundaries : SubBlockEnd(k) \in Timestamps
    /\ \E k \in InnerBoundaries :
          SubBlockEnd(k) \notin Timestamps /\ subBlocks[k].numFrames = maxBlockSize

(* C6: the outbound event count never exceeds the capacity: not in the
   context the operations write through, after any step of any sub-block,
   and not in the count render hands back when it returns. *)
C6_OutboundWithinCapacity ==
    [][/\ context'.midiOutCount <= context'.midiOutCapacity
       /\ outer'.midiOutCount <= outer'.midiOutCapacity
       /\ (pc = "rendered" /\ pc' = "idle") => numMIDIOutMessages' <= host.midiOutCapacity
      ]_vars

MidiOutputs == {j \in 1..Len(outputEndpoints) : isMIDIEventEndpoint(outputEndpoints[j])}

(* The events the engine produced on MIDI outputs, by the post-render
   operations that have iterated them so far. *)
MidiProduced ==
    LET cs == SelectSeq(calls, LAMBDA c : c.fn = "iterateOutputEvents" /\ c.h \in MidiOutputs)
    IN  SeqSum([k \in 1..Len(cs) |-> cs[k].a])

(* Two MIDI outputs, a buffer of capacity 0 or filled to capacity, and more
   events produced than fit. *)
C6_Witness ==
    /\ Rendered
    /\ Cardinality(MidiOutputs) = 2
    /\ MidiProduced > host.midiOutCapacity
    /\ outer.midiOutCount = host.midiOutCapacity

(* C7: a build that repeats the arguments of the build before it, on the
   same engine, with any number of render calls in between, ends with the
   same expected channel counts and the same operations, in number and in
   content, as that build. *)
C7_BuildIdempotent ==
    (lastBuild.built /\ prevBuild.built) =>
        /\ lastBuild.numIn = prevBuild.numIn
        /\ lastBuild.numOut = prevBuild.numOut
        /\ Len(lastBuild.pre) = Len(prevBuild.pre)
        /\ Len(lastBuild.post) = Len(prevBuild.post)
        /\ lastBuild.pre = prevBuild.pre
        /\ lastBuild.post = prevBuild.post

(* A pipeline with operations and channels on both sides was rendered and
   then built again with the same arguments. *)
C7_Witness ==
    /\ lastBuild.built
    /\ prevBuild.built
    /\ prevBuild.renders >= 1
    /\ lastBuild.numIn >= 1
    /\ Len(lastBuild.pre) >= 1
    /\ Len(lastBuild.post) >= 1

(* ceil(b / c) for c >= 1. *)
CeilDiv(b, c) == (b + c - 1) \div c

(* C8: with zero inbound events a block of B frames under cap C takes
   exactly ceil(B / C) advances, each of C frames but a last one of what
   remains, and when the engine produced no MIDI output event the outbound
   count is 0. *)
C8_NoEventsAdvances ==
    (Rendered /\ host.midiIn = <<>>) =>
        /\ Len(Advances) = CeilDiv(host.numFrames, maxBlockSize)
        /\ \A k \in 1..Len(Advances) :
              Advances[k] = IF k < Len(Advances)
                            THEN maxBlockSize
                            ELSE host.numFrames - maxBlockSize * (Len(Advances) - 1)
        /\ MidiProduced = 0 => outer.midiOutCount = 0

(* 1024 frames under the cap of 512: two advances of 512 frames, nothing out. *)
C8_Witness ==
    /\ Rendered
    /\ host.midiIn = <<>>
    /\ host.numFrames = 1024
    /\ maxBlockSize = 512
    /\ Advances = <<512, 512>>
    /\ MidiOutputs # {}
    /\ outer.midiOutCount = 0

(* C9: one inbound event at t with 0 < t < B <= C gives exactly two
   advances, of t and of B - t frames, and the event is in the window of the
   second sub-block only and forwarded there. *)
C9_SingleEventSplit ==
    (/\ Rendered
     /\ Len(host.midiIn) = 1
     /\ 0 < host.midiIn[1].frameIndex
     /\ host.midiIn[1].frameIndex < host.numFrames
     /\ host.numFrames <= maxBlockSize) =>
        /\ Advances = <<host.midiIn[1].frameIndex, host.numFrames - host.midiIn[1].frameIndex>>
        /\ Len(subBlocks) = 2
        /\ Window(1) = {}
        /\ Window(2) = {1}
        /\ \A n \in 1..Len(calls) : calls[n].fn = "addInputEvent" => calls[n].block = 2
        /\ \A h \in MidiInputs : ForwardedTo(h) = <<1>>

(* The event at 100 in a block of 512 under the cap of 512: 100 and 412. *)
C9_Witness ==
    /\ Rendered
    /\ Len(host.midiIn) = 1
    /\ host.midiIn[1].frameIndex = 100
    /\ host.numFrames = 512
    /\ maxBlockSize = 512
    /\ Advances = <<100, 412>>

(* The handles of the event-typed parameter operations. *)
ParamEventHandles ==
    {preRenderOperations[n].handle : n \in {m \in 1..Len(preRenderOperations) :
                                              preRenderOperations[m].kind = "paramEvent"}}

(* The probes of the detector of input h in this render call, and the
   events pushed to input h. *)
ProbesOf(h) ==
    SelectSeq(calls, LAMBDA c : c.fn = "getNewValueForParamIfChanged" /\ c.h = h)

PushesTo(h) == SelectSeq(calls, LAMBDA c : c.fn = "addInputEvent" /\ c.h = h)

(* Detector h is probed at most once in a sub-block, once in every sub-block
   by the time the loop ends, and the engine receives exactly one event per
   probe that returned a value. *)
OneProbePerSubBlock(h) ==
    /\ \A k \in 1..Len(ProbesOf(h)) : ProbesOf(h)[k].block = k
    /\ Len(ProbesOf(h)) <= Len(subBlocks)
    /\ Rendered => Len(ProbesOf(h)) = Len(subBlocks)
    /\ Len(PushesTo(h)) = Len(SelectSeq(ProbesOf(h), LAMBDA c : c.a = 1))

(* Since the build, detector h returned a value on its first probe only. *)
FirstProbeOnly(h) ==
    /\ detector[h] # <<>>
    /\ \A k \in 1..Len(detector[h]) : detector[h][k] = (k = 1)

(* C10, as claimed: one probe per sub-block, one event per probe that
   returns a value; and a detector that returns a value on its first probe
   only pushes exactly one event in the first render call after the build
   and none in a later one. *)
C10_OneEventInFirstRender ==
    \A h \in ParamEventHandles :
        /\ OneProbePerSubBlock(h)
        /\ (Rendered /\ FirstProbeOnly(h)) =>
              Len(PushesTo(h)) = IF renders = 1 THEN 1 ELSE 0

(* C10, amended: one probe per sub-block, one event per probe that returns a
   value; and a detector that returns a value on its first probe only pushes
   exactly one event in the first render call after the build that has at
   least one frame, and none in any other render call. *)
C10_OneEventInFirstNonEmptyRender ==
    \A h \in ParamEventHandles :
        /\ OneProbePerSubBlock(h)
        /\ (Rendered /\ FirstProbeOnly(h)) =>
              Len(PushesTo(h)) = IF totalFramesRendered = 0 /\ host.numFrames > 0
                                 THEN 1
                                 ELSE 0

(* A second render call of two sub-blocks in which a detector that had
   returned a value on its first probe only was probed twice and pushed
   nothing. *)
C10_Witness ==
    /\ Rendered
    /\ renders = 2
    /\ totalFramesRendered > 0
    /\ Len(subBlocks) = 2
    /\ \E h \in ParamEventHandles :
          /\ FirstProbeOnly(h)
          /\ Len(detector[h]) >= 3
          /\ Len(ProbesOf(h)) = 2
          /\ PushesTo(h) = <<>>

(* C11: a render call whose input and output views differ in frame count, or
   that is made while maxBlockSize is 0 (before a build, after reset()),
   halts at the precondition check: it never enters the loop, the engine is
   not prepared or advanced, no operation runs, the total-frames-rendered
   counter keeps its value, and nothing happens after the halt. *)
C11_RenderHaltsAtPrecondition ==
    [][/\ (/\ pc = "idle"
           /\ pc' \in {"loop", "halted"}
           /\ ~(host'.numFrames = host'.outFrames /\ maxBlockSize # 0))
          => /\ pc' = "halted"
             /\ calls' = <<>>
             /\ subBlocks' = <<>>
             /\ UNCHANGED <<totalFramesRendered, preparedFrames, outputEvents,
                            preRenderOperations, postRenderOperations, maxBlockSize>>
       /\ pc = "halted" => UNCHANGED vars
       /\ pc' \in {"loop", "callback", "pre", "post", "rendered"}
          => host'.numFrames = host'.outFrames /\ maxBlockSize' # 0]_vars

(* A render call with views of different frame counts has halted on a built
   pipeline that had rendered frames before. *)
C11_Witness ==
    /\ pc = "halted"
    /\ host.numFrames # host.outFrames
    /\ maxBlockSize # 0
    /\ totalFramesRendered > 0
    /\ calls = <<>>

(* A render call has halted on a pipeline that reset() had cleared. *)
C11_WitnessAfterReset ==
    /\ pc = "halted"
    /\ host.numFrames = host.outFrames
    /\ host.numFrames > 0
    /\ maxBlockSize = 0
    /\ lastBuild.built

(* The calls a step appends to the log. *)
NewCalls == {n \in 1..Len(calls') : n > Len(calls)}

(* The event of the current advance on output j that carries `data`. *)
ProducedEvent(j, data) ==
    outputEvents[j][CHOOSE k \in 1..Len(outputEvents[j]) : outputEvents[j][k].data = data]

(* C12: the timestamp the unused-event callback receives for an event the
   engine produced at offset o in the sub-block starting at frame s is
   T + s + o, T being the total-frames-rendered counter: 0 after a build,
   grown by the block's frame count when a render call returns, and
   otherwise constant. *)
C12_UnusedEventTimestamp ==
    [][/\ \A n \in NewCalls :
             calls'[n].fn = "handleUnusedEvent" =>
                /\ \E k \in 1..Len(outputEvents[calls'[n].h]) :
                      outputEvents[calls'[n].h][k].data = calls'[n].b
                /\ calls'[n].a = totalFramesRendered
                                   + subBlocks[Len(subBlocks)].start
                                   + ProducedEvent(calls'[n].h, calls'[n].b).frameOffset
       /\ totalFramesRendered' =
             IF pc = "idle" /\ pc' \in {"buildInputs", "buildOutputs"} THEN 0
             ELSE IF pc = "rendered" /\ pc' = "idle"
                  THEN totalFramesRendered + host.numFrames
             ELSE IF pc = "idle" /\ pc' = "idle" THEN 0
             ELSE totalFramesRendered]_vars

(* In a render call after frames were rendered, the callback has received an
   event produced at a non-zero offset of a sub-block that starts inside the
   block. *)
C12_Witness ==
    \E n \in 1..Len(calls) :
        /\ calls[n].fn = "handleUnusedEvent"
        /\ totalFramesRendered > 0
        /\ subBlocks[calls[n].block].start > 0
        /\ calls[n].a > totalFramesRendered + subBlocks[calls[n].block].start

(* The steps of the render callback in sub-block k, in the order they were
   taken: the function and, for an operation, its endpoint handle. *)
StepsOf(k) ==
    LET cs == SelectSeq(calls, LAMBDA c : /\ c.block = k
                                          /\ c.fn \in {"prepare", "preRenderOperation",
                                                       "advance", "postRenderOperation"})
    IN  [n \in 1..Len(cs) |-> <<cs[n].fn, cs[n].a>>]

(* The steps sub-block k must take: prepare, every pre-render operation in
   list order, one advance of the sub-block's frames, every post-render
   operation in list order. *)
ExpectedSteps(k) ==
    <<<<"prepare", subBlocks[k].numFrames>>>>
    \o [n \in 1..Len(preRenderOperations) |->
          <<"preRenderOperation", preRenderOperations[n].handle>>]
    \o <<<<"advance", subBlocks[k].numFrames>>>>
    \o [n \in 1..Len(postRenderOperations) |->
          <<"postRenderOperation", postRenderOperations[n].handle>>]

IsPrefix(a, b) == Len(a) <= Len(b) /\ a = SubSeq(b, 1, Len(a))

(* The operations of a list are in endpoint declaration order. *)
InDeclarationOrder(ops) ==
    \A n \in 1..Len(ops), m \in 1..Len(ops) : n < m => ops[n].handle < ops[m].handle

(* C13: in every sub-block the pre-render operations run in endpoint
   declaration order, then one advance of the sub-block's frame count, then
   the post-render operations in endpoint declaration order; a sub-block
   starts only when the one before it has run its last post-render
   operation, and the advances are as many as the sub-blocks. *)
C13_StepOrder ==
    /\ InDeclarationOrder(preRenderOperations)
    /\ InDeclarationOrder(postRenderOperations)
    /\ \A n \in 1..Len(calls) - 1 : calls[n].block <= calls[n + 1].block
    /\ \A k \in 1..Len(subBlocks) :
          /\ IsPrefix(StepsOf(k), ExpectedSteps(k))
          /\ (k < Len(subBlocks) \/ pc \in {"loop", "rendered"})
                => StepsOf(k) = ExpectedSteps(k)
    /\ Rendered => Len(CallsOf("advance")) = Len(subBlocks)

(* A render call of several sub-blocks has ended on a pipeline of two
   pre-render and two post-render operations. *)
C13_Witness ==
    /\ Rendered
    /\ Len(subBlocks) >= 2
    /\ Len(preRenderOperations) = 2
    /\ Len(postRenderOperations) = 2
    /\ Len(CallsOf("advance")) = Len(subBlocks)

(* The plain event outputs an unused-event operation was compiled for. *)
UnusedEventOutputs ==
    {postRenderOperations[n].handle :
        n \in {m \in 1..Len(postRenderOperations) :
                  postRenderOperations[m].kind = "unusedEvent"}}

(* The step runs the unused-event operation of output j. *)
RunsUnusedEventOperation(j) ==
    /\ j \in UnusedEventOutputs
    /\ \E n \in NewCalls : calls'[n].fn = "postRenderOperation" /\ calls'[n].a = j

(* The calls of the unused-event callback the step makes for output j. *)
NewUnusedEventCalls(j) ==
    SelectSeq(SubSeq(calls', Len(calls) + 1, Len(calls')),
              LAMBDA c : c.fn = "handleUnusedEvent" /\ c.h = j)

DataOf(events) == [k \in 1..Len(events) |-> events[k].data]

PassedData(j) == [k \in 1..Len(NewUnusedEventCalls(j)) |-> NewUnusedEventCalls(j)[k].b]

(* C14, as claimed: every event the engine produced for a plain event output
   in a sub-block is passed to the unused-event callback, whatever the
   callback returns. *)
C14_AllEventsDrained ==
    [][\A j \in 1..Len(outputEndpoints) :
          RunsUnusedEventOperation(j) => PassedData(j) = DataOf(outputEvents[j])]_vars

(* C14, amended: the events the engine produced for a plain event output in a
   sub-block are passed to the unused-event callback in production order up
   to and including the first one for which the callback returns false; the
   events after that one are not passed, and all are passed when the callback
   returns true every time. *)
C14_EventsDrainedUntilFalse ==
    [][\A j \in 1..Len(outputEndpoints) :
          RunsUnusedEventOperation(j) =>
             LET cs == NewUnusedEventCalls(j)
             IN  /\ IsPrefix(PassedData(j), DataOf(outputEvents[j]))
                 /\ \A k \in 1..Len(cs) - 1 : cs[k].c = 1
                 /\ \/ Len(cs) = Len(outputEvents[j])
                    \/ cs[Len(cs)].c = 0]_vars

(* The engine produced two events on a plain event output in a sub-block, and
   the unused-event operation has run and passed only the first, for which
   the callback returned false. *)
C14_Witness ==
    /\ pc = "post"
    /\ opIndex > Len(postRenderOperations)
    /\ \E j \in UnusedEventOutputs :
          /\ Len(outputEvents[j]) = 2
          /\ \E n \in 1..Len(calls) :
                /\ calls[n].fn = "handleUnusedEvent"
                /\ calls[n].h = j
                /\ calls[n].block = Len(subBlocks)
                /\ calls[n].b = outputEvents[j][1].data
                /\ calls[n].c = 0
          /\ ~\E n \in 1..Len(calls) :
                /\ calls[n].fn = "handleUnusedEvent"
                /\ calls[n].b = outputEvents[j][2].data

(* The audio endpoints: the inputs that are neither parameter inputs nor
   control-event endpoints and declare audio channels, and the outputs that
   are not control-event endpoints and declare audio channels. *)
AudioInputs ==
    {i \in 1..Len(inputEndpoints) : /\ ~isParameterInput(inputEndpoints[i])
                                    /\ ~isMIDIEventEndpoint(inputEndpoints[i])
                                    /\ getNumAudioChannels(inputEndpoints[i]) # 0}

AudioOutputs ==
    {j \in 1..Len(outputEndpoints) : /\ ~isMIDIEventEndpoint(outputEndpoints[j])
                                     /\ getNumAudioChannels(outputEndpoints[j]) # 0}

(* The channels of the audio endpoints of `which` declared before index n. *)
ChannelsBefore(endpoints, which, n) ==
    SeqSum([k \in 1..(n - 1) |-> IF k \in which THEN getNumAudioChannels(endpoints[k]) ELSE 0])

AudioOperations(ops) ==
    {n \in 1..Len(ops) : ops[n].kind \in {"audioIn", "audioInInterleaved", "audioOut"}}

(* The pipeline stands as the last build left it. *)
BuildCompleted == pc = "idle" /\ lastBuild.built /\ maxBlockSize # 0

(* The channel layout of a completed build. *)
ChannelLayout ==
    /\ numInputChannelsExpected =
          ChannelsBefore(inputEndpoints, AudioInputs, Len(inputEndpoints) + 1)
    /\ numOutputChannelsExpected =
          ChannelsBefore(outputEndpoints, AudioOutputs, Len(outputEndpoints) + 1)
    /\ \A n \in AudioOperations(preRenderOperations) :
          LET op == preRenderOperations[n]
          IN  /\ op.handle \in AudioInputs
              /\ op.startChannel = ChannelsBefore(inputEndpoints, AudioInputs, op.handle)
    /\ \A n \in AudioOperations(postRenderOperations) :
          LET op == postRenderOperations[n]
          IN  /\ op.handle \in AudioOutputs
              /\ op.startChannel = ChannelsBefore(outputEndpoints, AudioOutputs, op.handle)
    /\ Cardinality(AudioOperations(preRenderOperations)) = Cardinality(AudioInputs)
    /\ Cardinality(AudioOperations(postRenderOperations)) = Cardinality(AudioOutputs)

(* C15: during a build, after its reset, the expected channel counts never
   decrease; when the build has completed they are the sums of the channel
   counts of the audio input and of the audio output endpoints, and every
   audio operation starts at the sum over the audio endpoints declared before
   its own, whatever providers the build was given. *)
C15_ChannelCounts ==
    [][/\ pc \in {"buildInputs", "buildOutputs"}
          => /\ numInputChannelsExpected' >= numInputChannelsExpected
             /\ numOutputChannelsExpected' >= numOutputChannelsExpected
       /\ BuildCompleted' => ChannelLayout']_vars

(* A build has completed for inputs of two and one channels. *)
C15_Witness ==
    /\ BuildCompleted
    /\ inputEndpoints = <<AudioStereo, AudioMono>>
    /\ numInputChannelsExpected = 3
    /\ preRenderOperations[2].startChannel = 2

(* A build given a detector for a stream-typed parameter input has completed
   next to an audio input: the parameter adds no channel. *)
C15_WitnessParameter ==
    /\ BuildCompleted
    /\ inputEndpoints = <<ParamStream, AudioStereo>>
    /\ Len(preRenderOperations) = 2
    /\ numInputChannelsExpected = 2

(* The stream-typed parameter inputs. *)
StreamParameters ==
    {i \in 1..Len(inputEndpoints) : /\ isParameterInput(inputEndpoints[i])
                                    /\ isStream(inputEndpoints[i])}

(* The stream-typed parameter inputs for which the change-detector provider
   of build arguments b is supplied and returns a detector. *)
DetectedStreamParameters(b) ==
    {i \in StreamParameters : b.newValueFn.present /\ i \in b.newValueFn.provides}

(* The arguments of the build in progress or halted, or of the last one. *)
Building == pc \in {"buildInputs", "buildOutputs"} \/ (pc = "halted" /\ build.index > 0)

(* The endpoint at which the build has halted is a stream-typed parameter
   input (the ramp assertion) or an audio endpoint of a non-float type. *)
HaltedAtInput(i) == pc = "halted" /\ build.index = i + 1

(* C16, as claimed: a build with no ramp-length provider for an engine with
   a stream-typed parameter input never completes, whatever the
   change-detector provider is or returns. *)
C16_NoRampProviderHalts ==
    BuildCompleted => ~(~lastBuild.args.rampFn.present /\ StreamParameters # {})

(* C16, amended: a build with no ramp-length provider halts at the first
   stream-typed parameter input for which the change-detector provider is
   supplied and returns a detector, and never completes; when the provider is
   absent or returns no detector for any stream-typed parameter input, the
   missing ramp-length provider halts nothing. *)
C16_NoRampProviderHaltsWhenDetected ==
    /\ BuildCompleted =>
          ~(/\ ~lastBuild.args.rampFn.present
            /\ DetectedStreamParameters(lastBuild.args) # {})
    /\ (Building /\ ~build.rampFn.present) =>
          /\ \A i \in DetectedStreamParameters(build) :
                build.index > i => HaltedAtInput(i)
          /\ \A i \in StreamParameters \ DetectedStreamParameters(build) :
                ~HaltedAtInput(i)

(* A build with a detector for a stream-typed parameter input and no
   ramp-length provider has halted at that input. *)
C16_Witness ==
    /\ Building
    /\ ~build.rampFn.present
    /\ \E i \in DetectedStreamParameters(build) : HaltedAtInput(i)

(* The entries of the host's outbound buffer a step writes. *)
NewEntries ==
    IF DOMAIN midiOut' = DOMAIN midiOut
    THEN {k \in DOMAIN midiOut : midiOut'[k] # midiOut[k]}
    ELSE {}

(* C17: an outbound control event written to the host buffer is tagged with
   s + o, s being the start in the host block of the sub-block the engine
   produced it in and o the engine's offset in that sub-block: the tag lies
   inside the current block and holds no frames of earlier render calls. *)
C17_OutboundTag ==
    [][\A k \in NewEntries :
          /\ \E j \in MidiOutputs :
                \E e \in 1..Len(outputEvents[j]) :
                   /\ midiOut'[k].data = outputEvents[j][e].data
                   /\ midiOut'[k].frameIndex = subBlocks[Len(subBlocks)].start
                                                 + outputEvents[j][e].frameOffset
          /\ midiOut'[k].frameIndex >= subBlocks[Len(subBlocks)].start
          /\ midiOut'[k].frameIndex < SubBlockEnd(Len(subBlocks))
          /\ midiOut'[k].frameIndex < host.numFrames]_vars

(* In a render call after frames were rendered, an event produced at a
   non-zero offset of a sub-block that starts inside the block is in the
   buffer. *)
C17_Witness ==
    /\ pc = "post"
    /\ totalFramesRendered > 0
    /\ Len(subBlocks) >= 2
    /\ \E k \in DOMAIN midiOut :
          /\ midiOut[k] # Unwritten
          /\ midiOut[k].frameIndex > subBlocks[Len(subBlocks)].start

(* The step runs the MIDI output operation of output j. *)
RunsMidiOutOperation(j) ==
    /\ j \in MidiOutputs
    /\ \E n \in NewCalls : calls'[n].fn = "postRenderOperation" /\ calls'[n].a = j

(* The entries of the outbound buffer that hold an event. *)
WrittenEntries == {k \in DOMAIN midiOut : midiOut[k] # Unwritten}

(* What a render call that has left its loop shows when the engine produced
   MidiProduced control events: every sub-block was advanced, every event was
   handed to an operation, and the buffer holds min(N, K) events. *)
RenderedWithBuffer ==
    /\ SeqSum(Advances) = host.numFrames
    /\ Len(Advances) = Len(subBlocks)
    /\ EventOutputs = MidiOutputs => MidiProduced = produced
    /\ outer.midiOutCount = Min(MidiProduced, host.midiOutCapacity)
    /\ WrittenEntries = 1..outer.midiOutCount

(* C18: a full outbound buffer is no error.  An operation that finds n events
   with c of K entries written writes the first min(n, K - c) of them, in
   order, behind the entries already written and changes no other entry;
   the render call runs to its end, and the count it returns is min(N, K)
   for the N events produced over the call. *)
C18_FullBufferDropsSilently ==
    [][/\ \A j \in 1..Len(outputEndpoints) :
             RunsMidiOutOperation(j) =>
                LET c == context.midiOutCount
                    w == Min(Len(outputEvents[j]), context.midiOutCapacity - c)
                IN  /\ pc' = "post"
                    /\ context'.midiOutCount = c + w
                    /\ \A k \in DOMAIN midiOut :
                          IF k > c /\ k <= c + w
                          THEN midiOut'[k].data = outputEvents[j][k - c].data
                          ELSE midiOut'[k] = midiOut[k]
       /\ Rendered' => RenderedWithBuffer'
       /\ (pc = "rendered" /\ pc' = "idle")
             => numMIDIOutMessages' = Min(MidiProduced, host.midiOutCapacity)]_vars

(* A render call of several sub-blocks has left its loop with a full buffer
   of one entry, the engine having produced two control events. *)
C18_Witness ==
    /\ Rendered
    /\ Len(subBlocks) >= 2
    /\ host.midiOutCapacity = 1
    /\ MidiProduced = 2
    /\ outer.midiOutCount = 1
    /\ midiOut[1].data # Unwritten.data

(* A render call is past its precondition and has not returned. *)
InRender == pc \in {"loop", "callback", "pre", "post", "rendered"}

(* C19: a render call on a built pipeline terminates.  Every iteration of
   the loop processes at least one frame and leaves fewer frames remaining,
   so there are at most B iterations; a block of 0 frames has no iteration
   and no engine call; and every render call that has begun returns. *)
C19_RenderTerminates ==
    /\ [](InRender =>
             /\ \A k \in 1..Len(subBlocks) : subBlocks[k].numFrames >= 1
             /\ Len(subBlocks) <= host.numFrames
             /\ framesRemaining >= 0
             /\ framesRemaining <= host.numFrames
             /\ host.numFrames = 0 => subBlocks = <<>> /\ calls = <<>>)
    /\ [][(pc = "post" /\ pc' = "loop") => framesRemaining' < framesRemaining]_vars
    /\ (InRender ~> pc = "idle")

(* A render call has left its loop after as many iterations as the block has
   frames, given an unsorted event list with a timestamp beyond the block. *)
C19_Witness ==
    /\ Rendered
    /\ host.numFrames = 3
    /\ Len(subBlocks) = 3
    /\ ~IsSorted(host.midiIn)
    /\ \E e \in 1..Len(host.midiIn) : host.midiIn[e].frameIndex >= host.numFrames

(* C20: for every inbound event list, sorted or not, an event in the window
   of a sub-block, and an event forwarded to a MIDI input in a sub-block,
   has a timestamp at or before the sub-block's start: events may be late,
   never early. *)
C20_NeverEarly ==
    /\ \A k \in 1..Len(subBlocks) :
          \A e \in Window(k) : host.midiIn[e].frameIndex <= subBlocks[k].start
    /\ \A n \in 1..Len(calls) :
          (calls[n].fn = "addInputEvent" /\ calls[n].h \in MidiInputs) =>
             host.midiIn[calls[n].a].frameIndex <= subBlocks[calls[n].block].start

(* An unsorted list: an event was forwarded in a sub-block that starts after
   its timestamp. *)
C20_Witness ==
    /\ ~IsSorted(host.midiIn)
    /\ \E n \in 1..Len(calls) :
          /\ calls[n].fn = "addInputEvent"
          /\ calls[n].h \in MidiInputs
          /\ host.midiIn[calls[n].a].frameIndex < subBlocks[calls[n].block].start

====
